---- MODULE Spec2Model ----
\* Verification model of log4rs-routing-appender: the value template engine
\* (route/pattern/template.rs) and the routing appender with its appender
\* cache (lib.rs, route module).
EXTENDS Integers, Sequences, FiniteSets, TLC

VARIABLES
    pattern,      \* <<>> or <<the serde_value::Value handed to Template::new>>
    template,     \* <<>> before Template::new, then <<its Result>>
    mdc,          \* log_mdc of the calling thread: key name -> <<>> | <<value>>
    expanded,     \* <<>> or <<the Result of the last Template::expand>>
    derived,      \* <<>> or <<the String of the last Template::key>>
    idle_timeout, \* RoutingAppenderBuilder.idle_timeout, in seconds
    cache,        \* the Cache behind RoutingAppender.cache: [map, ttl]
    lock,         \* holder of the Mutex around the cache, or NoThread
    now,          \* the monotonic clock, in seconds
    th,           \* per thread: where it is in append, and its locals
    tls,          \* per thread: its log_mdc map
    ret,          \* <<>> or <<the Result of the append that returned last>>
    hist          \* per cache key: what happened under it so far

tvars == <<pattern, template, mdc, expanded, derived>>
cvars == <<idle_timeout, cache, lock, now, th, tls, ret, hist>>
vars == <<pattern, template, mdc, expanded, derived,
          idle_timeout, cache, lock, now, th, tls, ret, hist>>

-----------------------------------------------------------------------------
\* Strings. A Rust String is a TLA+ string; bytes are ordered by ASCII code.

Ascii == " $(),-./0123456789:_abcdefghijklmnopqrstuvwxyz{}"

Code(c) == CHOOSE i \in 1..Len(Ascii) : SubSeq(Ascii, i, i) = c

Min(a, b) == IF a < b THEN a ELSE b

\* Ordering::{Less, Equal, Greater} as -1, 0, 1
IntCmp(a, b) == IF a < b THEN -1 ELSE IF a > b THEN 1 ELSE 0

\* str::cmp: bytewise lexicographic
StrCmp(a, b) ==
    LET n == Min(Len(a), Len(b))
        D == {i \in 1..n : SubSeq(a, i, i) # SubSeq(b, i, i)}
    IN  IF D = {} THEN IntCmp(Len(a), Len(b))
        ELSE LET i == CHOOSE j \in D : \A k \in D : j <= k
             IN  IntCmp(Code(SubSeq(a, i, i)), Code(SubSeq(b, i, i)))

StartsAt(s, p, i) == i >= 1 /\ i + Len(p) - 1 <= Len(s) /\ SubSeq(s, i, i + Len(p) - 1) = p

\* least index >= from at which p occurs in s, 0 if none
Find(s, p, from) ==
    LET H == {i \in from..Len(s) : StartsAt(s, p, i)}
    IN  IF H = {} THEN 0 ELSE CHOOSE i \in H : \A j \in H : i <= j

Digits == <<"0", "1", "2", "3", "4", "5", "6", "7", "8", "9">>

\* Display of a usize: its decimal digits
RECURSIVE ToDec(_)
ToDec(n) == IF n < 10 THEN Digits[n + 1] ELSE ToDec(n \div 10) \o Digits[(n % 10) + 1]

-----------------------------------------------------------------------------
\* serde_value::Value and ValueTemplate: [t |-> variant, v |-> payload].
\*   Map      the BTreeMap's entries <<key, value>> as a sequence in its
\*            iteration order: ascending by ValueCmp (Value) or Cmp
\*            (ValueTemplate), keys distinct
\*   Newtype  the child
\*   Option   <<>> for None, <<child>> for Some
\*   Seq      sequence of children
\*   String   Value: a string; ValueTemplate: sequence of Chunks
\*   scalars  the payload itself (Unit: <<>>; Bytes: sequence of numbers)
\* The two float variants are left out: TLA+ has no floats.

IntTags == {"U8", "U16", "U32", "U64", "I8", "I16", "I32", "I64"}

Text(s) == [c |-> "Text", s |-> s]
Mdc(key, default) == [c |-> "Mdc", key |-> key, default |-> default]

PText(s) == [p |-> "Text", s |-> s]
PArgument(name, args) == [p |-> "Argument", name |-> name, args |-> args]
PError(e) == [p |-> "Error", e |-> e]

\* the argument list between the parentheses, split at commas
RECURSIVE SplitArgs(_)
SplitArgs(a) ==
    LET c == Find(a, ",", 1)
    IN  IF c = 0 THEN <<a>>
        ELSE <<SubSeq(a, 1, c - 1)>> \o SplitArgs(SubSeq(a, c + 1, Len(a)))

\* Parser: the pieces of a string, left to right; an Error piece is terminal.
RECURSIVE ParseFrom(_, _)
ParseFrom(s, i) ==
    IF i > Len(s) THEN <<>>
    ELSE IF StartsAt(s, "${", i)
    THEN LET rb == Find(s, "}", i + 2)
             lp == Find(s, "(", i + 2)
             rp == Find(s, ")", i + 2)
         IN  IF rb = 0 THEN <<PError("unterminated")>>
             ELSE IF lp = 0 \/ rp = 0 \/ lp > rp \/ rp + 1 # rb
             THEN <<PError("malformed")>>
             ELSE LET name == SubSeq(s, i + 2, lp - 1)
                      inner == SubSeq(s, lp + 1, rp - 1)
                      args == IF inner = "" THEN <<>> ELSE SplitArgs(inner)
                  IN  <<PArgument(name, args)>> \o ParseFrom(s, rb + 1)
    ELSE LET n == Find(s, "${", i)
             end == IF n = 0 THEN Len(s) ELSE n - 1
         IN  <<PText(SubSeq(s, i, end))>> \o ParseFrom(s, end + 1)

Parser(s) == ParseFrom(s, 1)

-----------------------------------------------------------------------------
\* Results: Ok(x) / Err(e)
Ok(x) == [ok |-> TRUE, val |-> x]
Err(e) == [ok |-> FALSE, err |-> e]

\* ValueTemplate::discriminant (the same table orders serde_value::Value)
discriminant(x) ==
    CASE x.t = "Bool" -> 0
      [] x.t = "U8" -> 1
      [] x.t = "U16" -> 2
      [] x.t = "U32" -> 3
      [] x.t = "U64" -> 4
      [] x.t = "I8" -> 5
      [] x.t = "I16" -> 6
      [] x.t = "I32" -> 7
      [] x.t = "I64" -> 8
      [] x.t = "F32" -> 9
      [] x.t = "F64" -> 10
      [] x.t = "Char" -> 11
      [] x.t = "String" -> 12
      [] x.t = "Unit" -> 13
      [] x.t = "Option" -> 14
      [] x.t = "Newtype" -> 15
      [] x.t = "Seq" -> 16
      [] x.t = "Map" -> 17
      [] x.t = "Bytes" -> 18

\* Option<String>::cmp: None < Some
OptStrCmp(a, b) ==
    IF a = <<>> \/ b = <<>> THEN IntCmp(Len(a), Len(b)) ELSE StrCmp(a[1], b[1])

\* derived Ord of Chunk: variant order Text < Mdc, then the fields in order
ChunkCmp(a, b) ==
    IF a.c # b.c THEN (IF a.c = "Text" THEN -1 ELSE 1)
    ELSE IF a.c = "Text" THEN StrCmp(a.s, b.s)
    ELSE IF StrCmp(a.key, b.key) # 0 THEN StrCmp(a.key, b.key)
    ELSE OptStrCmp(a.default, b.default)

\* Vec<Chunk>::cmp: lexicographic
RECURSIVE ChunksCmp(_, _)
ChunksCmp(a, b) ==
    IF a = <<>> \/ b = <<>> THEN IntCmp(Len(a), Len(b))
    ELSE IF ChunkCmp(a[1], b[1]) # 0 THEN ChunkCmp(a[1], b[1])
    ELSE ChunksCmp(Tail(a), Tail(b))

\* Vec<u8>::cmp: lexicographic
RECURSIVE BytesCmp(_, _)
BytesCmp(a, b) ==
    IF a = <<>> \/ b = <<>> THEN IntCmp(Len(a), Len(b))
    ELSE IF a[1] # b[1] THEN IntCmp(a[1], b[1])
    ELSE BytesCmp(Tail(a), Tail(b))

BoolNum(b) == IF b THEN 1 ELSE 0

\* Ord for ValueTemplate (tpl = TRUE: string leaves are chunk vectors) and the
\* same order on serde_value::Value (tpl = FALSE: string leaves are strings).
RECURSIVE CmpG(_, _, _)
RECURSIVE SeqCmp(_, _, _)
RECURSIVE EntriesCmp(_, _, _)
CmpG(a, b, tpl) ==
    IF a.t # b.t THEN IntCmp(discriminant(a), discriminant(b))
    ELSE CASE a.t = "Bool" -> IntCmp(BoolNum(a.v), BoolNum(b.v))
           [] a.t \in IntTags -> IntCmp(a.v, b.v)
           [] a.t = "Char" -> IntCmp(Code(a.v), Code(b.v))
           [] a.t = "String" -> IF tpl THEN ChunksCmp(a.v, b.v) ELSE StrCmp(a.v, b.v)
           [] a.t = "Unit" -> 0
           [] a.t = "Option" ->
                IF a.v = <<>> \/ b.v = <<>> THEN IntCmp(Len(a.v), Len(b.v))
                ELSE CmpG(a.v[1], b.v[1], tpl)
           [] a.t = "Newtype" -> CmpG(a.v, b.v, tpl)
           [] a.t = "Seq" -> SeqCmp(a.v, b.v, tpl)
           [] a.t = "Map" -> EntriesCmp(a.v, b.v, tpl)
           [] a.t = "Bytes" -> BytesCmp(a.v, b.v)
SeqCmp(a, b, tpl) ==
    IF a = <<>> \/ b = <<>> THEN IntCmp(Len(a), Len(b))
    ELSE IF CmpG(a[1], b[1], tpl) # 0 THEN CmpG(a[1], b[1], tpl)
    ELSE SeqCmp(Tail(a), Tail(b), tpl)
EntriesCmp(a, b, tpl) ==
    IF a = <<>> \/ b = <<>> THEN IntCmp(Len(a), Len(b))
    ELSE IF CmpG(a[1][1], b[1][1], tpl) # 0 THEN CmpG(a[1][1], b[1][1], tpl)
    ELSE IF CmpG(a[1][2], b[1][2], tpl) # 0 THEN CmpG(a[1][2], b[1][2], tpl)
    ELSE EntriesCmp(Tail(a), Tail(b), tpl)

Cmp(a, b) == CmpG(a, b, TRUE)
ValueCmp(a, b) == CmpG(a, b, FALSE)

\* BTreeMap::insert on the entries in ascending key order: an equal key keeps
\* its place (and the old key) and takes the new value.
RECURSIVE BTreeInsert(_, _, _, _)
BTreeInsert(m, k, v, tpl) ==
    IF m = <<>> THEN <<<<k, v>>>>
    ELSE LET c == CmpG(k, m[1][1], tpl)
         IN  IF c = 0 THEN <<<<m[1][1], v>>>> \o Tail(m)
             ELSE IF c < 0 THEN <<<<k, v>>>> \o m
             ELSE <<m[1]>> \o BTreeInsert(Tail(m), k, v, tpl)

\* ChunkOfPiece with the upper limit on the argument count forgotten
ChunkOfPiece_NoUpperBound(piece, s) ==
    CASE piece.p = "Text" -> Ok(Text(piece.s))
      [] piece.p = "Argument" /\ piece.name = "mdc" ->
           IF Len(piece.args) = 0
           THEN Err(<<"expected 1 or 2 arguments", s>>)
           ELSE Ok(Mdc(piece.args[1],
                       IF Len(piece.args) >= 2 THEN <<piece.args[2]>> ELSE <<>>))
      [] piece.p = "Argument" /\ piece.name # "mdc" ->
           Err(<<"unknown argument", piece.name, s>>)
      [] piece.p = "Error" -> Err(<<piece.e, s>>)

\* the chunk of one piece of string leaf s
ChunkOfPiece(piece, s) ==
    CASE piece.p = "Text" -> Ok(Text(piece.s))
      [] piece.p = "Argument" /\ piece.name = "mdc" ->
           IF Len(piece.args) = 0 \/ Len(piece.args) > 2
           THEN Err(<<"expected 1 or 2 arguments", s>>)
           ELSE Ok(Mdc(piece.args[1],
                       IF Len(piece.args) >= 2 THEN <<piece.args[2]>> ELSE <<>>))
      [] piece.p = "Argument" /\ piece.name # "mdc" ->
           Err(<<"unknown argument", piece.name, s>>)
      [] piece.p = "Error" -> Err(<<piece.e, s>>)

\* the chunks of the pieces of string leaf s, up to the first failure
RECURSIVE ChunksOf(_, _)
ChunksOf(pieces, s) ==
    IF pieces = <<>> THEN Ok(<<>>)
    ELSE LET c == ChunkOfPiece(pieces[1], s)
         IN  IF ~c.ok THEN c
             ELSE LET rest == ChunksOf(Tail(pieces), s)
                  IN  IF ~rest.ok THEN rest ELSE Ok(<<c.val>> \o rest.val)

\* ValueTemplate::new
RECURSIVE VTNew(_)
RECURSIVE VTNewSeq(_)
RECURSIVE VTNewMap(_, _)
VTNew(value) ==
    CASE value.t = "Map" ->
           LET r == VTNewMap(value.v, <<>>)
           IN  IF r.ok THEN Ok([t |-> "Map", v |-> r.val]) ELSE r
      [] value.t = "Newtype" ->
           LET r == VTNew(value.v)
           IN  IF r.ok THEN Ok([t |-> "Newtype", v |-> r.val]) ELSE r
      [] value.t = "Option" ->
           IF value.v = <<>> THEN Ok([t |-> "Option", v |-> <<>>])
           ELSE LET r == VTNew(value.v[1])
                IN  IF r.ok THEN Ok([t |-> "Option", v |-> <<r.val>>]) ELSE r
      [] value.t = "Seq" ->
           LET r == VTNewSeq(value.v)
           IN  IF r.ok THEN Ok([t |-> "Seq", v |-> r.val]) ELSE r
      [] value.t = "String" ->
           LET r == ChunksOf(Parser(value.v), value.v)
           IN  IF r.ok THEN Ok([t |-> "String", v |-> r.val]) ELSE r
      [] OTHER -> Ok(value)
VTNewSeq(vs) ==
    IF vs = <<>> THEN Ok(<<>>)
    ELSE LET r == VTNew(vs[1])
         IN  IF ~r.ok THEN r
             ELSE LET rest == VTNewSeq(Tail(vs))
                  IN  IF ~rest.ok THEN rest ELSE Ok(<<r.val>> \o rest.val)
VTNewMap(m, m2) ==
    IF m = <<>> THEN Ok(m2)
    ELSE LET k == VTNew(m[1][1])
         IN  IF ~k.ok THEN k
             ELSE LET v == VTNew(m[1][2])
                  IN  IF ~v.ok THEN v
                      ELSE VTNewMap(Tail(m), BTreeInsert(m2, k.val, v.val, TRUE))

\* VTKeys without the key names referenced from the keys of a map
RECURSIVE VTKeys_SkipsMapKeys(_)
VTKeys_SkipsMapKeys(vt) ==
    CASE vt.t = "Map" ->
           UNION {VTKeys_SkipsMapKeys(vt.v[i][2]) : i \in 1..Len(vt.v)}
      [] vt.t = "Newtype" -> VTKeys_SkipsMapKeys(vt.v)
      [] vt.t = "Option" -> IF vt.v = <<>> THEN {} ELSE VTKeys_SkipsMapKeys(vt.v[1])
      [] vt.t = "Seq" -> UNION {VTKeys_SkipsMapKeys(vt.v[i]) : i \in 1..Len(vt.v)}
      [] vt.t = "String" -> {vt.v[i].key : i \in {j \in 1..Len(vt.v) : vt.v[j].c = "Mdc"}}
      [] OTHER -> {}

\* ValueTemplate::keys: the key names of all Mdc chunks
RECURSIVE VTKeys(_)
VTKeys(vt) ==
    CASE vt.t = "Map" ->
           UNION {VTKeys(vt.v[i][1]) \cup VTKeys(vt.v[i][2]) : i \in 1..Len(vt.v)}
      [] vt.t = "Newtype" -> VTKeys(vt.v)
      [] vt.t = "Option" -> IF vt.v = <<>> THEN {} ELSE VTKeys(vt.v[1])
      [] vt.t = "Seq" -> UNION {VTKeys(vt.v[i]) : i \in 1..Len(vt.v)}
      [] vt.t = "String" -> {vt.v[i].key : i \in {j \in 1..Len(vt.v) : vt.v[j].c = "Mdc"}}
      [] OTHER -> {}

\* log_mdc::get on the calling thread's map m
MdcGet(m, key) == IF key \in DOMAIN m THEN m[key] ELSE <<>>

\* ResolveChunk with the default taking precedence over the MDC value
ResolveChunk_DefaultFirst(chunk, m) ==
    IF chunk.c = "Text" THEN Ok(chunk.s)
    ELSE LET v == MdcGet(m, chunk.key)
         IN  IF chunk.default # <<>> THEN Ok(chunk.default[1])
             ELSE IF v # <<>> THEN Ok(v[1])
             ELSE Err(<<"MDC key not present", chunk.key>>)

\* what one chunk appends to the string under the thread's MDC m
ResolveChunk(chunk, m) ==
    IF chunk.c = "Text" THEN Ok(chunk.s)
    ELSE LET v == MdcGet(m, chunk.key)
         IN  IF v # <<>> THEN Ok(v[1])
             ELSE IF chunk.default # <<>> THEN Ok(chunk.default[1])
             ELSE Err(<<"MDC key not present", chunk.key>>)

\* the string of one String leaf
RECURSIVE ExpandChunks(_, _)
ExpandChunks(chunks, m) ==
    IF chunks = <<>> THEN Ok("")
    ELSE LET r == ResolveChunk(chunks[1], m)
         IN  IF ~r.ok THEN r
             ELSE LET rest == ExpandChunks(Tail(chunks), m)
                  IN  IF ~rest.ok THEN rest ELSE Ok(r.val \o rest.val)

\* ExpandScalar with one arm of the table naming the wrong variant
ExpandScalar_WrongVariant(vt) == IF vt.t = "U8" THEN [t |-> "I8", v |-> vt.v] ELSE vt

\* the scalar variants are copied
ExpandScalar(vt) == vt

\* ValueTemplate::expand
RECURSIVE VTExpand(_, _)
RECURSIVE VTExpandSeq(_, _)
RECURSIVE VTExpandMap(_, _, _)
VTExpand(vt, m) ==
    CASE vt.t = "Map" ->
           LET r == VTExpandMap(vt.v, <<>>, m)
           IN  IF r.ok THEN Ok([t |-> "Map", v |-> r.val]) ELSE r
      [] vt.t = "Newtype" ->
           LET r == VTExpand(vt.v, m)
           IN  IF r.ok THEN Ok([t |-> "Newtype", v |-> r.val]) ELSE r
      [] vt.t = "Option" ->
           IF vt.v = <<>> THEN Ok([t |-> "Option", v |-> <<>>])
           ELSE LET r == VTExpand(vt.v[1], m)
                IN  IF r.ok THEN Ok([t |-> "Option", v |-> <<r.val>>]) ELSE r
      [] vt.t = "Seq" ->
           LET r == VTExpandSeq(vt.v, m)
           IN  IF r.ok THEN Ok([t |-> "Seq", v |-> r.val]) ELSE r
      [] vt.t = "String" ->
           LET r == ExpandChunks(vt.v, m)
           IN  IF r.ok THEN Ok([t |-> "String", v |-> r.val]) ELSE r
      [] OTHER -> Ok(ExpandScalar(vt))
VTExpandSeq(vs, m) ==
    IF vs = <<>> THEN Ok(<<>>)
    ELSE LET r == VTExpand(vs[1], m)
         IN  IF ~r.ok THEN r
             ELSE LET rest == VTExpandSeq(Tail(vs), m)
                  IN  IF ~rest.ok THEN rest ELSE Ok(<<r.val>> \o rest.val)
VTExpandMap(es, m2, m) ==
    IF es = <<>> THEN Ok(m2)
    ELSE LET k == VTExpand(es[1][1], m)
         IN  IF ~k.ok THEN k
             ELSE LET v == VTExpand(es[1][2], m)
                  IN  IF ~v.ok THEN v
                      ELSE VTExpandMap(Tail(es), BTreeInsert(m2, k.val, v.val, FALSE), m)

\* all orders in which a HashSet holding S can be iterated
Orders(S) ==
    {o \in [1..Cardinality(S) -> S] : \A i, j \in 1..Cardinality(S) : o[i] = o[j] => i = j}

\* Template::new: the template value and its key set in HashSet iteration order
\* (any order; fixed from then on, the set is never changed).
TemplateNew(pat, order) ==
    LET value == VTNew(pat)
    IN  IF value.ok THEN Ok([value |-> value.val, keys |-> order]) ELSE value

\* Template::key
RECURSIVE KeyOver(_, _)
KeyOver(keys, m) ==
    IF keys = <<>> THEN ""
    ELSE LET k == MdcGet(m, keys[1])
         IN  (IF k # <<>> THEN ToDec(Len(k[1])) \o k[1] ELSE "-") \o KeyOver(Tail(keys), m)

TemplateKey(tpl, m) == KeyOver(tpl.keys, m)

\* Template::expand
TemplateExpand(tpl, m) == VTExpand(tpl.value, m)

NoThread == 0

-----------------------------------------------------------------------------
\* Inputs of the template engine.

KeyNames == {"job_id", "user"}

\* MDC values: the empty string, "-", strings starting with digits, the
\* pairs ("ab","cd") / ("a","bcd"), and two ten-byte values.
MdcValues == {"", "-", "0", "a", "ab", "cd", "bcd", "foo", "10aaaaaaaa", "aaaaaaaa1a"}

Contexts == [KeyNames -> {<<>>} \cup {<<v>> : v \in MdcValues}]

Str(s) == [t |-> "String", v |-> s]
U8(n) == [t |-> "U8", v |-> n]
Unit == [t |-> "Unit", v |-> <<>>]
SeqOf(vs) == [t |-> "Seq", v |-> vs]
Some(x) == [t |-> "Option", v |-> <<x>>]
None == [t |-> "Option", v |-> <<>>]
Newtype(x) == [t |-> "Newtype", v |-> x]

\* a Value::Map holding the given entries
RECURSIVE InsertAll(_, _)
InsertAll(m, es) ==
    IF es = <<>> THEN m ELSE InsertAll(BTreeInsert(m, es[1][1], es[1][2], FALSE), Tail(es))
MapOf(es) == [t |-> "Map", v |-> InsertAll(<<>>, es)]

Scalars ==
    {[t |-> "Bool", v |-> TRUE], [t |-> "Bool", v |-> FALSE], U8(7), [t |-> "I64", v |-> -3],
     [t |-> "Char", v |-> "c"], Unit, [t |-> "Bytes", v |-> <<1, 2>>]}

\* trees without string leaves
PlainValues ==
    Scalars
    \cup {SeqOf(<<a, U8(7), a>>) : a \in Scalars}
    \cup {MapOf(<<<<a, Unit>>, <<U8(1), SeqOf(<<Unit, a>>)>>>>) : a \in Scalars}
    \cup {Some(Newtype(a)) : a \in Scalars}
    \cup {None, SeqOf(<<>>), MapOf(<<>>),
          MapOf(<<<<SeqOf(<<U8(2), U8(1)>>), None>>, <<SeqOf(<<U8(1)>>), Some(Unit)>>,
                  <<MapOf(<<<<Unit, Unit>>>>), Newtype(Newtype(U8(0)))>>>>)}

\* trees with well-formed string leaves
GoodPatterns ==
    {Str("${mdc(job_id)}"),
     Str("${mdc(job_id,bar)}"),
     Str("static.log"),
     Str("log/${mdc(job_id)}/${mdc(user)}.log"),
     Str("${mdc(user)}${mdc(job_id)}"),
     MapOf(<<<<Str("kind"), Str("file")>>, <<Str("path"), Str("log/${mdc(job_id)}.log")>>>>),
     MapOf(<<<<Str("${mdc(job_id)}"), U8(1)>>, <<Str("${mdc(user)}"), U8(2)>>>>),
     MapOf(<<<<Str("foo"), U8(1)>>, <<Str("${mdc(job_id,foo)}"), U8(2)>>, <<U8(3), U8(3)>>>>),
     SeqOf(<<Str("${mdc(user)}"), Some(Newtype(Str("${mdc(user,none)}"))), None,
             MapOf(<<<<Unit, Str("${mdc(job_id)}")>>>>)>>)}

\* trees with a leaf that Template::new must reject
BadPatterns ==
    {Str("${mdc()}"),
     Str("${mdc(a,b,c)}"),
     Str("${env(HOME)}"),
     Str("x${mdc(job_id"),
     Str("${mdc}"),
     MapOf(<<<<Str("${mdc()}"), Unit>>>>),
     MapOf(<<<<U8(1), SeqOf(<<Some(Newtype(Str("a${date(x)}")))>>)>>>>),
     SeqOf(<<Str("${mdc(job_id)}"), MapOf(<<<<Str("k"), Str("${mdc(a,b,c)}")>>>>)>>)}

Patterns == PlainValues \cup GoodPatterns \cup BadPatterns

-----------------------------------------------------------------------------
\* The template engine as a state machine.

\* no routing appender exists
NoAppender ==
    /\ idle_timeout = 0
    /\ cache = [map |-> <<>>, ttl |-> 0]
    /\ lock = NoThread
    /\ now = 0
    /\ th = <<>>
    /\ tls = <<>>
    /\ ret = <<>>
    /\ hist = <<>>

InitTemplate ==
    /\ pattern = <<>>
    /\ template = <<>>
    /\ mdc \in Contexts
    /\ expanded = <<>>
    /\ derived = <<>>
    /\ NoAppender

\* Template::new(pattern): the router's template is built once
New(p) ==
    LET value == VTNew(p)
    IN  /\ template = <<>>
        /\ pattern' = <<p>>
        /\ \E order \in (IF value.ok THEN Orders(VTKeys(value.val)) ELSE {<<>>}) :
               template' = <<TemplateNew(p, order)>>
        /\ expanded' = <<>>
        /\ derived' = <<>>
        /\ UNCHANGED mdc
        /\ UNCHANGED cvars

\* log_mdc::insert / log_mdc::remove by the thread between two calls
MdcInsert(k, v) ==
    /\ mdc[k] # <<v>>
    /\ mdc' = [mdc EXCEPT ![k] = <<v>>]
    /\ expanded' = <<>>
    /\ derived' = <<>>
    /\ UNCHANGED <<pattern, template>>
    /\ UNCHANGED cvars

MdcRemove(k) ==
    /\ mdc[k] # <<>>
    /\ mdc' = [mdc EXCEPT ![k] = <<>>]
    /\ expanded' = <<>>
    /\ derived' = <<>>
    /\ UNCHANGED <<pattern, template>>
    /\ UNCHANGED cvars

Built == template # <<>> /\ template[1].ok

\* Template::expand
Expand ==
    /\ Built
    /\ expanded' = <<TemplateExpand(template[1].val, mdc)>>
    /\ UNCHANGED <<pattern, template, mdc, derived>>
    /\ UNCHANGED cvars

\* Template::key
Key ==
    /\ Built
    /\ derived' = <<TemplateKey(template[1].val, mdc)>>
    /\ UNCHANGED <<pattern, template, mdc, expanded>>
    /\ UNCHANGED cvars

NextTemplate ==
    \/ \E p \in Patterns : New(p)
    \/ \E k \in KeyNames, v \in MdcValues : MdcInsert(k, v)
    \/ \E k \in KeyNames : MdcRemove(k)
    \/ Expand
    \/ Key

SpecTemplate == InitTemplate /\ [][NextTemplate]_vars

-----------------------------------------------------------------------------
\* The routing appender: RoutingAppender, its builder, the pattern router and
\* the appender cache.

NThreads == 2
MaxCalls == 3
MaxTime == 40

Threads == 1..NThreads

\* RoutingAppender::builder: 2 minutes
DefaultIdleTimeout == 120

\* idle timeouts handed to RoutingAppenderBuilder::idle_timeout
Timeouts == {0, 30}

\* by how many seconds the clock moves between two observations
TickSteps == {10}

\* the router configuration of the crate documentation
RouterPattern ==
    MapOf(<<<<Str("kind"), Str("file")>>,
            <<Str("path"), Str("log/jobs/${mdc(job_id)}/output.log")>>>>)

\* PatternRouter.template: built once from the configuration, never changed
RouterTemplate == TemplateNew(RouterPattern, <<"job_id">>).val

\* what the threads hold in their MDC
JobIds == <<<<>>, <<"a">>, <<"ab">>>>
ThreadContext(i) == [k \in KeyNames |-> IF k = "job_id" THEN JobIds[i] ELSE <<>>]
ThreadContexts == {ThreadContext(i) : i \in 1..Len(JobIds)}

\* the threads are alike: their MDCs are taken in ascending order
Assignments ==
    {[t \in Threads |-> ThreadContext(f[t])] :
        f \in {g \in [Threads -> 1..Len(JobIds)] :
                  \A t1, t2 \in Threads : t1 <= t2 => g[t1] <= g[t2]}}

\* RoutingAppender::builder
Builder == [idle_timeout |-> DefaultIdleTimeout]

\* RoutingAppenderBuilder::idle_timeout
BuilderIdleTimeout(builder, d) == [builder EXCEPT !.idle_timeout = d]

\* Cache::new(expiration): an empty map
CacheNew(expiration) == [map |-> <<>>, ttl |-> expiration]

\* BuilderBuild with the configured idle timeout dropped
BuilderBuild_IgnoresTimeout(builder) == CacheNew(0)

\* RoutingAppenderBuilder::build: the cache takes the builder's idle timeout
BuilderBuild(builder) == CacheNew(builder.idle_timeout)

\* the keys the router can derive in this run
RouterKeys == {TemplateKey(RouterTemplate, c) : c \in ThreadContexts}

NoHistory ==
    [calls |-> 0,         \* route calls that ended
     builds |-> 0,        \* invocations of the appender builder
     fails |-> 0,         \* constructions that failed (expand or builder)
     evicted |-> 0,       \* entries the sweep removed
     apps |-> {},         \* appenders route returned
     first |-> -1,        \* clock sample of the first access, -1 if none
     last |-> -1,         \* clock sample of the last access, -1 if none
     within |-> TRUE]     \* every gap between two accesses was <= idle_timeout

Idle == [pc |-> "idle", key |-> "", time |-> 0, app |-> 0]

\* the state after RoutingAppender::builder().idle_timeout(d).build(router)
Init ==
    /\ pattern = <<>>
    /\ template = <<>>
    /\ mdc = <<>>
    /\ expanded = <<>>
    /\ derived = <<>>
    /\ \E d \in Timeouts :
           LET b == BuilderIdleTimeout(Builder, d)
           IN  /\ idle_timeout = b.idle_timeout
               /\ cache = BuilderBuild(b)
    /\ lock = NoThread
    /\ now = 0
    /\ th = [t \in Threads |-> Idle]
    /\ tls \in Assignments
    /\ ret = <<>>
    /\ hist = [k \in RouterKeys |-> NoHistory]

\* the clock moves on, whatever the threads are doing
Tick ==
    /\ \E d \in TickSteps : now + d <= MaxTime /\ now' = now + d
    /\ UNCHANGED <<idle_timeout, cache, lock, th, tls, ret, hist>>
    /\ UNCHANGED tvars

\* the entry of key k is idle beyond the timeout at time t
Expired(m, k, t, ttl) == t - m[k].used > ttl

\* the eviction sweep: every entry idle beyond the timeout goes
Sweep(m, t, ttl) ==
    LET keep == {k \in DOMAIN m : ~Expired(m, k, t, ttl)}
    IN  [k \in keep |-> m[k]]

\* the entry of k refreshed / inserted
Put(m, k, e) == [x \in DOMAIN m \cup {k} |-> IF x = k THEN e ELSE m[x]]

\* CanLock with the cache shared without mutual exclusion
CanLock_NoMutex == TRUE

\* the Mutex around the cache is free
CanLock == lock = NoThread

MadeCalls == LET RECURSIVE Sum(_)
                 Sum(K) == IF K = {} THEN 0
                           ELSE LET k == CHOOSE x \in K : TRUE
                                IN  hist[k].calls + Sum(K \ {k})
             IN  Sum(DOMAIN hist) + Cardinality({t \in Threads : th[t].pc = "build"})

\* the access of key k at clock sample t, recorded
Accessed(h, t) ==
    [h EXCEPT !.first = IF h.first < 0 THEN t ELSE h.first,
              !.last = t,
              !.within = h.within /\ (h.last >= 0 => t - h.last <= idle_timeout)]

\* the entries the sweep at time t removes, recorded
Swept(t) ==
    [k \in DOMAIN hist |->
        IF k \in DOMAIN cache.map /\ Expired(cache.map, k, t, cache.ttl)
        THEN [hist[k] EXCEPT !.evicted = @ + 1] ELSE hist[k]]

\* append, first part: lock the cache, derive the key, sweep, look the key
\* up. A live entry is refreshed and returned, and the lock is dropped; with
\* no live entry the thread keeps the lock and goes on to construct.
Route(t) ==
    LET k == TemplateKey(RouterTemplate, tls[t])
        m == Sweep(cache.map, now, cache.ttl)
    IN  /\ th[t].pc = "idle"
        /\ MadeCalls < MaxCalls
        /\ CanLock
        /\ IF k \in DOMAIN m
           THEN /\ cache' = [cache EXCEPT !.map = Put(m, k, [m[k] EXCEPT !.used = now])]
                /\ th' = [th EXCEPT ![t] = [pc |-> "append", key |-> k, time |-> now,
                                            app |-> m[k].appender]]
                /\ hist' = [Swept(now) EXCEPT
                               ![k] = [Accessed(@, now) EXCEPT
                                          !.calls = @ + 1,
                                          !.apps = @ \cup {m[k].appender}]]
                /\ UNCHANGED lock
           ELSE /\ cache' = [cache EXCEPT !.map = m]
                /\ th' = [th EXCEPT ![t] = [pc |-> "build", key |-> k, time |-> now,
                                            app |-> 0]]
                /\ hist' = [Swept(now) EXCEPT ![k] = Accessed(@, now)]
                /\ lock' = t
        /\ UNCHANGED <<idle_timeout, now, tls, ret>>
        /\ UNCHANGED tvars

\* AppendRouteError with the error of route swallowed
AppendRouteError_Swallowed(e) == Ok(<<>>)

\* what append returns when route fails with e
AppendRouteError(e) == Err(e)

\* what append returns after the appender's own append returned r
AppendForward(r) == r

\* the next appender the builder hands out
NewAppender == 1 + Cardinality(UNION {hist[k].apps : k \in DOMAIN hist})

\* append, second part: the construction under the lock. expand may fail
\* on a missing MDC key and the appender builder may fail on the expanded
\* configuration: then route fails and append returns the error. Otherwise the
\* appender is inserted with the access time as its last use. Either way the
\* lock is dropped.
Build(t) ==
    LET k == th[t].key
        config == TemplateExpand(RouterTemplate, tls[t])
        a == NewAppender
    IN  /\ th[t].pc = "build"
        /\ lock' = (IF lock = t THEN NoThread ELSE lock)
        /\ IF ~config.ok
           THEN /\ ret' = <<AppendRouteError(config.err)>>
                /\ th' = [th EXCEPT ![t] = Idle]
                /\ hist' = [hist EXCEPT ![k].calls = @ + 1, ![k].fails = @ + 1]
                /\ UNCHANGED cache
           ELSE \/ /\ ret' = <<AppendRouteError(<<"appender builder", config.val>>)>>
                   /\ th' = [th EXCEPT ![t] = Idle]
                   /\ hist' = [hist EXCEPT ![k].calls = @ + 1, ![k].builds = @ + 1,
                                           ![k].fails = @ + 1]
                   /\ UNCHANGED cache
                \/ /\ cache' = [cache EXCEPT
                                   !.map = Put(@, k, [appender |-> a, used |-> th[t].time])]
                   /\ th' = [th EXCEPT ![t].pc = "append", ![t].app = a]
                   /\ hist' = [hist EXCEPT ![k].calls = @ + 1, ![k].builds = @ + 1,
                                           ![k].apps = @ \cup {a}]
                   /\ UNCHANGED ret
        /\ UNCHANGED <<idle_timeout, now, tls>>
        /\ UNCHANGED tvars

\* append, last part: the record goes to the appender, whose result is
\* returned as it is
Forward(t) ==
    /\ th[t].pc = "append"
    /\ \E r \in {Ok(<<>>), Err(<<"appender">>)} : ret' = <<AppendForward(r)>>
    /\ th' = [th EXCEPT ![t] = Idle]
    /\ UNCHANGED <<idle_timeout, cache, lock, now, tls, hist>>
    /\ UNCHANGED tvars

Next ==
    \/ Tick
    \/ \E t \in Threads : Route(t)
    \/ \E t \in Threads : Build(t)
    \/ \E t \in Threads : Forward(t)

Spec == Init /\ [][Next]_vars

-----------------------------------------------------------------------------
\* Vocabulary of the properties of the template engine.

Range(f) == {f[i] : i \in DOMAIN f}

\* the key names the built template references
KeySet == Range(template[1].val.keys)

\* all string leaves of a Value, map keys and nested composites included
RECURSIVE StringLeaves(_)
StringLeaves(x) ==
    CASE x.t = "Map" ->
           UNION {StringLeaves(x.v[i][1]) \cup StringLeaves(x.v[i][2]) : i \in 1..Len(x.v)}
      [] x.t = "Newtype" -> StringLeaves(x.v)
      [] x.t = "Option" -> IF x.v = <<>> THEN {} ELSE StringLeaves(x.v[1])
      [] x.t = "Seq" -> UNION {StringLeaves(x.v[i]) : i \in 1..Len(x.v)}
      [] x.t = "String" -> {x.v}
      [] OTHER -> {}

\* all chunk vectors of a ValueTemplate
RECURSIVE ChunkVectors(_)
ChunkVectors(x) ==
    CASE x.t = "Map" ->
           UNION {ChunkVectors(x.v[i][1]) \cup ChunkVectors(x.v[i][2]) : i \in 1..Len(x.v)}
      [] x.t = "Newtype" -> ChunkVectors(x.v)
      [] x.t = "Option" -> IF x.v = <<>> THEN {} ELSE ChunkVectors(x.v[1])
      [] x.t = "Seq" -> UNION {ChunkVectors(x.v[i]) : i \in 1..Len(x.v)}
      [] x.t = "String" -> {x.v}
      [] OTHER -> {}

AllChunks(x) == UNION {Range(cs) : cs \in ChunkVectors(x)}

\* a reference the calling thread's MDC cannot resolve
Unresolved(chunk, m) == chunk.c = "Mdc" /\ MdcGet(m, chunk.key) = <<>> /\ chunk.default = <<>>

\* what one chunk stands for when it can be resolved
Resolved(chunk, m) ==
    IF chunk.c = "Text" THEN chunk.s
    ELSE IF MdcGet(m, chunk.key) # <<>> THEN MdcGet(m, chunk.key)[1]
    ELSE chunk.default[1]

RECURSIVE Concat(_)
Concat(ss) == IF ss = <<>> THEN "" ELSE ss[1] \o Concat(Tail(ss))

\* C2: for a fixed template, two MDC assignments that differ in the presence
\* or value of at least one referenced key never derive the same cache key.
KeyInjective ==
    (Built /\ derived # <<>>) =>
        \A m2 \in Contexts :
            (\E k \in KeySet : m2[k] # mdc[k]) =>
                TemplateKey(template[1].val, m2) # derived[1]

\* C3: the derived key does not depend on the order in which the referenced
\* key names sit in the template's key set: every template with the same key
\* set derives the same string from the same MDC.
KeyOrderIndependent ==
    (Built /\ derived # <<>>) =>
        \A o \in Orders(KeySet) : KeyOver(o, mdc) = derived[1]

\* C6: expand resolves every reference chunk on its own: the MDC value when
\* the key is present (default or not), the default when the key is absent,
\* and otherwise the whole expand fails naming the key, without a value.
ExpandResolves ==
    (Built /\ expanded # <<>>) =>
        LET vt == template[1].val.value
            r == expanded[1]
            missing == {c \in AllChunks(vt) : Unresolved(c, mdc)}
        IN  /\ r.ok <=> missing = {}
            /\ ~r.ok => /\ DOMAIN r = {"ok", "err"}
                        /\ r.err[1] = "MDC key not present"
                        /\ r.err[2] \in {c.key : c \in missing}
            /\ (r.ok /\ vt.t = "String") =>
                   r.val = Str(Concat([i \in 1..Len(vt.v) |-> Resolved(vt.v[i], mdc)]))
            /\ (pattern = <<Str("${mdc(job_id)}")>> /\ mdc["job_id"] = <<"foo">>) =>
                   r = Ok(Str("foo"))
            /\ (pattern = <<Str("${mdc(job_id)}")>> /\ mdc["job_id"] = <<>>) =>
                   r = Err(<<"MDC key not present", "job_id">>)
            /\ (pattern = <<Str("${mdc(job_id,bar)}")>> /\ mdc["job_id"] = <<>>) =>
                   r = Ok(Str("bar"))
            /\ (pattern = <<Str("${mdc(job_id,bar)}")>> /\ mdc["job_id"] = <<"foo">>) =>
                   r = Ok(Str("foo"))

\* C6 witnesses: an absent key falls back to the default.
ExpandResolvesWitness ==
    /\ pattern = <<Str("${mdc(job_id,bar)}")>>
    /\ mdc["job_id"] = <<>>
    /\ expanded = <<Ok(Str("bar"))>>

\* a string leaf Template::new has to reject
BadLeaf(s) ==
    \E i \in 1..Len(Parser(s)) :
        LET piece == Parser(s)[i]
        IN  \/ piece.p = "Error"
            \/ piece.p = "Argument" /\ piece.name # "mdc"
            \/ piece.p = "Argument" /\ Len(piece.args) \notin {1, 2}

\* C7: Template::new fails exactly when some string leaf of the tree (map
\* keys and nested composites included) holds a malformed reference, an
\* unknown reference kind or a reference with 0 or more than 2 arguments; a
\* built template holds only text and key lookups, and expand fails for a
\* missing MDC key only.
BuildRejects ==
    template # <<>> =>
        /\ template[1].ok <=> \A s \in StringLeaves(pattern[1]) : ~BadLeaf(s)
        /\ template[1].ok =>
               \A c \in AllChunks(template[1].val.value) :
                   \/ c.c = "Text"
                   \/ c.c = "Mdc" /\ c.key \in KeySet /\ Len(c.default) <= 1
        /\ (expanded # <<>> /\ ~expanded[1].ok) => expanded[1].err[1] = "MDC key not present"

\* C7 witness: a zero-argument reference in a map key rejects the whole tree.
BuildRejectsWitness ==
    /\ pattern = <<MapOf(<<<<Str("${mdc()}"), Unit>>>>)>>
    /\ template # <<>>
    /\ ~template[1].ok

\* the shape of a tree: variant, sequence lengths, option children, map sizes
RECURSIVE SameShape(_, _)
SameShape(a, b) ==
    /\ b.t = a.t
    /\ CASE a.t = "Map" -> Len(b.v) = Len(a.v)
         [] a.t = "Newtype" -> SameShape(a.v, b.v)
         [] a.t = "Option" -> /\ Len(b.v) = Len(a.v)
                              /\ a.v # <<>> => SameShape(a.v[1], b.v[1])
         [] a.t = "Seq" -> /\ Len(b.v) = Len(a.v)
                           /\ \A i \in 1..Len(a.v) : SameShape(a.v[i], b.v[i])
         [] OTHER -> TRUE

\* C8: a successful expand returns a value of the shape of the configuration
\* tree the template was built from; every mapping keeps its number of entries.
ExpandKeepsShape ==
    (Built /\ expanded # <<>> /\ expanded[1].ok) => SameShape(pattern[1], expanded[1].val)

AgreeOnKeys(m, m2) == \A k \in KeySet : m2[k] = m[k]

-----------------------------------------------------------------------------
\* Properties of the routing appender.

\* C1: the lookup, sweep and build-and-insert of one append never interleave
\* with those of another (one thread at a time constructs, holding the cache
\* lock), and while no entry of a key is evicted and no construction fails,
\* all callers with that key get one and the same appender, built once.
OneBuildPerKey ==
    /\ \A t1, t2 \in Threads :
           (th[t1].pc = "build" /\ th[t2].pc = "build") => t1 = t2
    /\ \A t \in Threads : th[t].pc = "build" => lock = t
    /\ \A k \in DOMAIN hist :
           (hist[k].evicted = 0 /\ hist[k].fails = 0) =>
               /\ hist[k].builds <= 1
               /\ Cardinality(hist[k].apps) <= 1
               /\ hist[k].calls >= 1 => (hist[k].builds = 1 /\ Cardinality(hist[k].apps) = 1)

\* C1 witness: two threads are inside append at once with the same key and
\* hold the same appender, which was built once.
OneBuildPerKeyWitness ==
    /\ th[1].pc = "append" /\ th[2].pc = "append"
    /\ th[1].key = th[2].key
    /\ th[1].app = th[2].app
    /\ hist[th[1].key].builds = 1
    /\ hist[th[1].key].calls = 2

FailedBuildLeavesNoTrace ==
    [][\A t \in Threads :
          /\ (th[t].pc = "build" /\ th'[t].pc = "idle") =>
                 LET config == TemplateExpand(RouterTemplate, tls[t])
                 IN  /\ ret' = <<Err(IF config.ok THEN <<"appender builder", config.val>>
                                     ELSE config.err)>>
                     /\ cache' = cache
                     /\ th[t].key \notin DOMAIN cache'.map
          /\ (th[t].pc = "idle" /\ th'[t].pc # "idle") =>
                 /\ th'[t].pc = "append" => th'[t].key \in DOMAIN cache'.map
                 /\ th'[t].key \notin DOMAIN cache'.map => th'[t].pc = "build"
      ]_vars

\* C10 witness: the construction under a key failed twice, the second time
\* on a missing MDC key; the cache has no entry under it.
FailedBuildLeavesNoTraceWitness ==
    \E k \in DOMAIN hist :
        /\ hist[k].fails = 2
        /\ k \notin DOMAIN cache.map
        /\ ret = <<Err(<<"MDC key not present", "job_id">>)>>

====
